---------------------------- MODULE Spec2Model ----------------------------
(***************************************************************************)
(* CAT Mastery Tracker (src/src/App.tsx): per-record metrics, the chart    *)
(* aggregation of PerformanceCharts, the daily target of                   *)
(* DailyTargetProgress, the keyword analysis of AIInsights and the record  *)
(* collection of CatMasteryTracker (create, edit, update, delete).         *)
(*                                                                         *)
(* Numbers.  The source computes with IEEE doubles.  Here a non-integer    *)
(* number is an exact rational <<n, d>> with d > 0; all inputs are small   *)
(* non-negative integers, for which the double results round to the same   *)
(* two-decimal strings as the exact quotients.  Time values are counted in *)
(* minutes (the source's milliseconds divided by 60000) so that they fit   *)
(* the checker's integers.                                                 *)
(***************************************************************************)
EXTENDS Integers, Sequences, FiniteSets, TLC

VARIABLES
    partialEntry,     \* the argument handed to the metric helpers
    entries,          \* CatMasteryTracker: the 'cat-tracker-entries' collection
    tz,               \* the local time zone of the runtime, minutes east of UTC
    timePeriod,       \* CatMasteryTracker: 'daily' | 'weekly' | 'monthly'
    selectedSubject,  \* PerformanceCharts: 'Overall' or a subject
    today,            \* the UTC calendar date of "new Date()"
    dailyTarget,      \* CatMasteryTracker: the 'cat-tracker-target' value
    isEditing,        \* DailyTargetProgress: the target is being edited
    target,           \* DailyTargetProgress: the value in the target input
    isAnalyzing,      \* AIInsights: an analysis was requested
    analysisResult,   \* AIInsights: the lines shown under "Key Problem Areas"
    timers,           \* pending setTimeout callbacks, each with its captured entries
    now,              \* the last reading of the clock by "new Date()"
    editingEntry,     \* CatMasteryTracker: the entry being edited, or NoEntry
    currentTipIndex,  \* AIInsights: the index of the tip on display
    earlierRun        \* history: <<captured entries, result>> of one earlier
                      \* completed analysis, or <<>>

vars == <<partialEntry, entries, tz, timePeriod, selectedSubject, today,
          dailyTarget, isEditing, target, isAnalyzing, analysisResult, timers,
          now, editingEntry, currentTipIndex, earlierRun>>

----------------------------------------------------------------------------
(* Bounds of the model *)

MaxCount == 6        \* questionsAttempted, correctAnswers typed into the form
MaxSets == 1         \* set counts and minutes typed into the form
MaxEntries == 2      \* records added to a stored collection
MaxTarget == 7       \* target values typed into the input range up to this

----------------------------------------------------------------------------
(* Numbers *)

Rat(n, d) == <<n, d>>
RatEq(a, b) == a[1] * b[2] = b[1] * a[2]
RatLt(a, b) == a[1] * b[2] < b[1] * a[2]
RatLe(a, b) == a[1] * b[2] <= b[1] * a[2]

\* Math.min(a, b)
MathMin(a, b) == IF RatLt(b, a) THEN b ELSE a

\* Math.ceil(n / d) for d > 0
MathCeil(n, d) == -((-n) \div d)

\* parseFloat(x.toFixed(2)): the nearest multiple of 1/100, the larger one
\* on a tie
ToFixed2(x) == Rat((2 * 100 * x[1] + x[2]) \div (2 * x[2]), 100)

\* Array.prototype.reduce((sum, e) => sum + f(e), 0)
RECURSIVE SumSeq(_, _)
SumSeq(F(_), s) ==
    IF s = <<>> THEN 0 ELSE F(s[1]) + SumSeq(F, Tail(s))

\* Array.prototype.filter
RECURSIVE FilterSeq(_, _)
FilterSeq(P(_), s) ==
    IF s = <<>> THEN <<>>
    ELSE (IF P(s[1]) THEN <<s[1]>> ELSE <<>>) \o FilterSeq(P, Tail(s))

\* Array.prototype.map
MapSeq(F(_), s) == SubSeq([i \in 1..Len(s) |-> F(s[i])], 1, Len(s))

----------------------------------------------------------------------------
(* Helper functions, App.tsx 79-88.  A Partial<Entry> is a function whose  *)
(* domain holds the fields that are present.                               *)

\* entry.f || 0
OrZero(entry, f) == IF f \in DOMAIN entry THEN entry[f] ELSE 0

calculateTotalSets(entry) ==
    OrZero(entry, "lrSets") + OrZero(entry, "diSets")
        + OrZero(entry, "vaultSets") + OrZero(entry, "sectionalSets")

\* variant: no attempts read as a perfect score
calculateAccuracyPerfectWithoutAttempts(entry) ==
    IF "questionsAttempted" \notin DOMAIN entry \/ entry["questionsAttempted"] = 0
    THEN Rat(100, 1)
    ELSE Rat(OrZero(entry, "correctAnswers") * 100, entry["questionsAttempted"])

calculateAccuracy(entry) ==
    IF "questionsAttempted" \notin DOMAIN entry \/ entry["questionsAttempted"] = 0
    THEN Rat(0, 1)
    ELSE Rat(OrZero(entry, "correctAnswers") * 100, entry["questionsAttempted"])

\* variant: the quotient without the test of totalSets
calculateSpeedUnguarded(entry) ==
    Rat(OrZero(entry, "timeTaken"), calculateTotalSets(entry))

calculateSpeed(entry) ==
    LET totalSets == calculateTotalSets(entry)
    IN  IF totalSets = 0 THEN Rat(0, 1)
        ELSE Rat(OrZero(entry, "timeTaken"), totalSets)

----------------------------------------------------------------------------
(* Dates.  An entry's date is the string YYYY-MM-DD, written <<y, m, d>>.  *)
(* "new Date(entry.date)" is UTC midnight of that day; getFullYear,        *)
(* getMonth, getDate, getDay and new Date(y, 0, 1) work in local time.     *)

MinutesPerDay == 1440

Leaps(y) == (y \div 4) - (y \div 100) + (y \div 400)
IsLeap(y) == (y % 4 = 0 /\ y % 100 # 0) \/ y % 400 = 0
DaysBeforeYear(y) == 365 * (y - 1970) + Leaps(y - 1) - Leaps(1969)
MonthLen(y, m) ==
    IF m = 2 THEN (IF IsLeap(y) THEN 29 ELSE 28)
    ELSE IF m \in {4, 6, 9, 11} THEN 30 ELSE 31

CumulativeDays == <<0, 31, 59, 90, 120, 151, 181, 212, 243, 273, 304, 334>>
DaysBeforeMonth(y, m) ==
    CumulativeDays[m] + (IF m > 2 /\ IsLeap(y) THEN 1 ELSE 0)

\* days from 1970-01-01 to the civil date
DayNumber(y, m, d) == DaysBeforeYear(y) + DaysBeforeMonth(y, m) + (d - 1)

\* new Date("YYYY-MM-DD").getTime(), in minutes
DateParse(date) == DayNumber(date[1], date[2], date[3]) * MinutesPerDay

\* new Date(year, monthIndex, day).getTime(), in minutes: local midnight
DateLocal(y, monthIndex, d) ==
    DayNumber(y, monthIndex + 1, d) * MinutesPerDay - tz

\* the local calendar day a time value falls on
LocalDay(t) == (t + tz) \div MinutesPerDay

YearOfDay(n) ==
    CHOOSE y \in (1970 + n \div 366)..(1970 + n \div 365) :
        DaysBeforeYear(y) <= n /\ n < DaysBeforeYear(y + 1)

getFullYear(t) == YearOfDay(LocalDay(t))

\* Date.prototype.getMonth: 0-based
getMonth(t) ==
    LET y == getFullYear(t)
        r == LocalDay(t) - DaysBeforeYear(y)
    IN  (CHOOSE m \in 1..12 :
            DaysBeforeMonth(y, m) <= r /\ r < DaysBeforeMonth(y, m) + MonthLen(y, m)) - 1

getDate(t) ==
    LET y == getFullYear(t)
    IN  LocalDay(t) - DaysBeforeYear(y) - DaysBeforeMonth(y, getMonth(t) + 1) + 1

\* Date.prototype.getDay: Sunday = 0; 1970-01-01 was a Thursday
getDay(t) == (LocalDay(t) + 4) % 7

MonthShort ==
    <<"Jan", "Feb", "Mar", "Apr", "May", "Jun",
      "Jul", "Aug", "Sep", "Oct", "Nov", "Dec">>

\* toLocaleDateString('en-US', { month: 'short', day: 'numeric' })
MonthDayName(t) == MonthShort[getMonth(t) + 1] \o " " \o ToString(getDate(t))

\* toLocaleString('en-US', { month: 'short', year: 'numeric' })
MonthYearName(t) == MonthShort[getMonth(t) + 1] \o " " \o ToString(getFullYear(t))

----------------------------------------------------------------------------
(* Array.prototype.sort with a comparator: stable (ECMAScript 2019).       *)

RECURSIVE SortMerge(_, _, _)
SortMerge(Cmp(_, _), left, right) ==
    IF left = <<>> THEN right
    ELSE IF right = <<>> THEN left
    ELSE IF Cmp(left[1], right[1]) <= 0
         THEN <<left[1]>> \o SortMerge(Cmp, Tail(left), right)
         ELSE <<right[1]>> \o SortMerge(Cmp, left, Tail(right))

RECURSIVE ArraySort(_, _)
ArraySort(Cmp(_, _), s) ==
    IF Len(s) <= 1 THEN s
    ELSE LET half == Len(s) \div 2
         IN  SortMerge(Cmp, ArraySort(Cmp, SubSeq(s, 1, half)),
                            ArraySort(Cmp, SubSeq(s, half + 1, Len(s))))

\* variant: the comparator of the newest-first table
DateDescending(a, b) == DateParse(b.date) - DateParse(a.date)

\* (a, b) => new Date(a.date).getTime() - new Date(b.date).getTime()
DateAscending(a, b) == DateParse(a.date) - DateParse(b.date)

\* CatMasteryTracker: the collection handed to every panel
chronologicalEntries == ArraySort(DateAscending, entries)

----------------------------------------------------------------------------
(* PerformanceCharts, App.tsx 197-253 *)

DailyLimit == 30

\* variant: Math.ceil((pastDays + firstDay.getDay()) / 7)
WeekNumberNoOffset(t) ==
    LET firstDay == DateLocal(getFullYear(t), 0, 1)
        pastMinutes == t - firstDay
    IN  MathCeil(pastMinutes + MinutesPerDay * getDay(firstDay),
                 MinutesPerDay * 7)

\* Math.ceil((pastDays + firstDay.getDay() + 1) / 7), the number after "W"
WeekNumber(t) ==
    LET firstDay == DateLocal(getFullYear(t), 0, 1)
        pastMinutes == t - firstDay
    IN  MathCeil(pastMinutes + MinutesPerDay * (getDay(firstDay) + 1),
                 MinutesPerDay * 7)

getWeekLabel(t) == "W" \o ToString(WeekNumber(t))

\* the group key of an entry; the string `${year}-${label}` is written as
\* the pair of its parts
GroupKey(period, entry) ==
    LET date == DateParse(entry.date)
    IN  IF period = "weekly"
        THEN <<getFullYear(date), getWeekLabel(date)>>
        ELSE <<getFullYear(date), getMonth(date) + 1>>

\* variant: groupedData[key] = [entry]
GroupPushOverwrite(groupedData, key, entry) ==
    IF \E i \in 1..Len(groupedData) : groupedData[i][1] = key
    THEN LET Replaced(group) == IF group[1] = key THEN <<key, <<entry>>>>
                                ELSE group
         IN  MapSeq(Replaced, groupedData)
    ELSE Append(groupedData, <<key, <<entry>>>>)

\* if (!groupedData[key]) groupedData[key] = []; groupedData[key].push(entry)
\* groupedData is the sequence of its <<key, entries>> pairs in insertion order
GroupPush(groupedData, key, entry) ==
    IF \E i \in 1..Len(groupedData) : groupedData[i][1] = key
    THEN LET Pushed(group) == IF group[1] = key
                              THEN <<key, Append(group[2], entry)>>
                              ELSE group
         IN  MapSeq(Pushed, groupedData)
    ELSE Append(groupedData, <<key, <<entry>>>>)

\* sorted.forEach(entry => ...)
RECURSIVE GroupAll(_, _)
GroupAll(period, sorted) ==
    IF sorted = <<>> THEN <<>>
    ELSE LET entry == sorted[Len(sorted)]
         IN  GroupPush(GroupAll(period, SubSeq(sorted, 1, Len(sorted) - 1)),
                       GroupKey(period, entry), entry)

EntryCorrect(e) == e.correctAnswers
EntryAttempted(e) == e.questionsAttempted

\* variant: the mean of the records' accuracies
BucketPointMeanAccuracy(period, key, groupEntries) ==
    LET totalSets == SumSeq(calculateTotalSets, groupEntries)
        Hundredths(e) == ToFixed2(calculateAccuracy(e))[1]
        accuracy == Rat(SumSeq(Hundredths, groupEntries), 100 * Len(groupEntries))
        name == IF period = "monthly"
                THEN MonthYearName(DateLocal(key[1], key[2] - 1, 1))
                ELSE ToString(key[1]) \o "-" \o key[2]
    IN  [name |-> name, Accuracy |-> ToFixed2(accuracy), TotalSets |-> totalSets]

\* the callback mapped over Object.entries(groupedData)
BucketPoint(period, key, groupEntries) ==
    LET totalSets == SumSeq(calculateTotalSets, groupEntries)
        totalCorrect == SumSeq(EntryCorrect, groupEntries)
        totalAttempted == SumSeq(EntryAttempted, groupEntries)
        accuracy == IF totalAttempted > 0
                    THEN Rat(totalCorrect * 100, totalAttempted)
                    ELSE Rat(0, 1)
        name == IF period = "monthly"
                THEN MonthYearName(DateLocal(key[1], key[2] - 1, 1))
                ELSE ToString(key[1]) \o "-" \o key[2]
    IN  [name |-> name, Accuracy |-> ToFixed2(accuracy), TotalSets |-> totalSets]

\* the callback mapped over sorted in daily mode
DailyPoint(entry) ==
    [name |-> MonthDayName(DateParse(entry.date)),
     Accuracy |-> ToFixed2(calculateAccuracy(entry)),
     TotalSets |-> calculateTotalSets(entry)]

\* variant: slice(0, n)
SliceLastFromStart(s, n) == IF Len(s) <= n THEN s ELSE SubSeq(s, 1, n)

\* Array.prototype.slice(-n)
SliceLast(s, n) == IF Len(s) <= n THEN s ELSE SubSeq(s, Len(s) - n + 1, Len(s))

ChartData(shown, period, subject) ==
    LET Matches(e) == e.subject = subject
        filteredEntries == IF subject # "Overall" THEN FilterSeq(Matches, shown)
                           ELSE shown
        sorted == ArraySort(DateAscending, filteredEntries)
    IN  IF period = "daily"
        THEN SliceLast(MapSeq(DailyPoint, sorted), DailyLimit)
        ELSE LET Point(group) == BucketPoint(period, group[1], group[2])
             IN  MapSeq(Point, GroupAll(period, sorted))

\* the memoised value rendered by PerformanceCharts
chartData == ChartData(chronologicalEntries, timePeriod, selectedSubject)

----------------------------------------------------------------------------
(* DailyTargetProgress, App.tsx 119-134 *)

\* entries.filter(e => e.date === todayStr).reduce(... calculateTotalSets ...)
SetsToday(shown, todayStr) ==
    LET IsToday(e) == e.date = todayStr
    IN  SumSeq(calculateTotalSets, FilterSeq(IsToday, shown))

\* variant: no Math.min
ProgressUncapped(sets, goal) ==
    IF goal > 0 THEN Rat(sets * 100, goal) ELSE Rat(0, 1)

Progress(sets, goal) ==
    IF goal > 0 THEN MathMin(Rat(sets * 100, goal), Rat(100, 1)) ELSE Rat(0, 1)

\* variant: progress >= 50
BarColorFromHalf(sets, goal) ==
    IF sets >= goal THEN "bg-success"
    ELSE IF RatLe(Rat(50, 1), Progress(sets, goal)) THEN "bg-yellow-400"
    ELSE "bg-primary"

BarColor(sets, goal) ==
    IF sets >= goal THEN "bg-success"
    ELSE IF RatLt(Rat(50, 1), Progress(sets, goal)) THEN "bg-yellow-400"
    ELSE "bg-primary"

\* the values of one render
setsToday == SetsToday(chronologicalEntries, today)
progress == Progress(setsToday, dailyTarget)
barColor == BarColor(setsToday, dailyTarget)

\* Number(e.target.value): the text of a number input is empty, <<>>, or
\* the numeral of n, <<n>>
Number(text) == IF text = <<>> THEN 0 ELSE text[1]

\* variant: target >= 0
SavedTargetNotNegative(typed, old) == IF typed >= 0 THEN typed ELSE old

\* what handleSave stores: the typed value when it is positive
SavedTarget(typed, old) == IF typed > 0 THEN typed ELSE old

UnchangedCharts ==
    UNCHANGED <<partialEntry, entries, now, tz, timePeriod, selectedSubject,
                editingEntry>>
UnchangedInsights ==
    UNCHANGED <<isAnalyzing, analysisResult, timers, currentTipIndex,
                earlierRun>>
UnchangedGoal == UNCHANGED <<today, dailyTarget, isEditing, target>>

\* the Edit button next to the target
StartEditing ==
    /\ ~isEditing
    /\ isEditing' = TRUE
    /\ UNCHANGED <<today, dailyTarget, target>>
    /\ UnchangedCharts /\ UnchangedInsights

\* onChange of the target input
ChangeTarget(text) ==
    /\ isEditing
    /\ target' = Number(text)
    /\ UNCHANGED <<today, dailyTarget, isEditing>>
    /\ UnchangedCharts /\ UnchangedInsights

handleSave ==
    /\ isEditing
    /\ dailyTarget' = SavedTarget(target, dailyTarget)
    /\ isEditing' = (IF target > 0 THEN FALSE ELSE isEditing)
    /\ UNCHANGED <<today, target>>
    /\ UnchangedCharts /\ UnchangedInsights

----------------------------------------------------------------------------
(* AIInsights.handleAnalyzeMistakes, App.tsx 326-363.  A string is the     *)
(* sequence of its characters.                                             *)

Whitespace == {" ", "\t", "\n"}
Digits == <<"0", "1", "2", "3", "4", "5", "6", "7", "8", "9">>
UpperCase ==
    <<"A", "B", "C", "D", "E", "F", "G", "H", "I", "J", "K", "L", "M",
      "N", "O", "P", "Q", "R", "S", "T", "U", "V", "W", "X", "Y", "Z">>
LowerCase ==
    <<"a", "b", "c", "d", "e", "f", "g", "h", "i", "j", "k", "l", "m",
      "n", "o", "p", "q", "r", "s", "t", "u", "v", "w", "x", "y", "z">>

\* String.prototype.trim
RECURSIVE TrimStart(_)
TrimStart(s) ==
    IF s # <<>> /\ s[1] \in Whitespace THEN TrimStart(Tail(s)) ELSE s

RECURSIVE TrimEnd(_)
TrimEnd(s) ==
    IF s # <<>> /\ s[Len(s)] \in Whitespace
    THEN TrimEnd(SubSeq(s, 1, Len(s) - 1)) ELSE s

Trim(s) == TrimEnd(TrimStart(s))

\* Array.prototype.join(' ')
RECURSIVE JoinSpace(_)
JoinSpace(parts) ==
    IF parts = <<>> THEN <<>>
    ELSE IF Len(parts) = 1 THEN parts[1]
    ELSE parts[1] \o <<" ">> \o JoinSpace(Tail(parts))

LowerChar(c) ==
    IF \E i \in 1..26 : UpperCase[i] = c
    THEN LowerCase[CHOOSE i \in 1..26 : UpperCase[i] = c] ELSE c

UpperChar(c) ==
    IF \E i \in 1..26 : LowerCase[i] = c
    THEN UpperCase[CHOOSE i \in 1..26 : LowerCase[i] = c] ELSE c

\* String.prototype.toLowerCase
ToLowerCase(s) == MapSeq(LowerChar, s)

\* replace(/[.,]/g, '')
StripPunctuation(s) ==
    LET Kept(c) == c \notin {".", ","}
    IN  FilterSeq(Kept, s)

\* split(/\s+/): the pieces between the whitespace runs; a leading or a
\* trailing run leaves an empty piece at that end
RECURSIVE SplitFrom(_, _, _)
SplitFrom(s, current, inRun) ==
    IF s = <<>> THEN <<current>>
    ELSE IF s[1] \in Whitespace
         THEN IF inRun THEN SplitFrom(Tail(s), current, TRUE)
              ELSE <<current>> \o SplitFrom(Tail(s), <<>>, TRUE)
         ELSE SplitFrom(Tail(s), Append(current, s[1]), FALSE)

SplitWhitespace(s) == SplitFrom(s, <<>>, FALSE)

stopWords ==
    {
      <<"a">>, <<"a", "n">>, <<"t", "h", "e">>,
      <<"i", "n">>, <<"o", "n">>, <<"i", "s">>,
      <<"w", "a", "s">>, <<"t", "o">>, <<"f", "o", "r">>,
      <<"o", "f">>, <<"a", "n", "d">>, <<"i">>,
      <<"m", "y">>, <<"i", "t">>, <<"w", "i", "t", "h">>,
      <<"n", "o", "t">>, <<"d", "i", "d">>, <<"h", "a", "d">>,
      <<"b", "u", "t">> }

\* the condition under which a word is counted
Survives(word) == word \notin stopWords /\ Len(word) > 3

ProtoKey == <<"_", "_", "p", "r", "o", "t", "o", "_", "_">>

IsDigit(c) == \E i \in 1..10 : Digits[i] = c
DigitValue(c) == (CHOOSE i \in 1..10 : Digits[i] = c) - 1

RECURSIVE DigitsLess(_, _)
DigitsLess(a, b) ==
    /\ a # <<>>
    /\ \/ DigitValue(a[1]) < DigitValue(b[1])
       \/ a[1] = b[1] /\ DigitsLess(Tail(a), Tail(b))

\* the order of two numerals as numbers
NumeralLess(a, b) ==
    Len(a) < Len(b) \/ (Len(a) = Len(b) /\ DigitsLess(a, b))

MaxArrayIndex == <<"4", "2", "9", "4", "9", "6", "7", "2", "9", "4">>

\* a property key that is an array index: the canonical numeral of an
\* integer from 0 to 2^32 - 2
IsArrayIndex(key) ==
    /\ key # <<>>
    /\ \A i \in 1..Len(key) : IsDigit(key[i])
    /\ Len(key) = 1 \/ key[1] # "0"
    /\ ~NumeralLess(MaxArrayIndex, key)

\* wordFrequencies, a plain object, is the sequence of its own <<key, value>>
\* properties in creation order.
\* wordFrequencies[word] = (wordFrequencies[word] || 0) + 1
\* A store to "__proto__" of a value that is not an object creates nothing.
\* ("constructor", the other lower-case name a plain object inherits, is
\* not among the words of the model.)
CountWord(wordFrequencies, word) ==
    IF word = ProtoKey THEN wordFrequencies
    ELSE IF \E i \in 1..Len(wordFrequencies) : wordFrequencies[i][1] = word
    THEN [i \in 1..Len(wordFrequencies) |->
            IF wordFrequencies[i][1] = word
            THEN <<word, wordFrequencies[i][2] + 1>>
            ELSE wordFrequencies[i]]
    ELSE Append(wordFrequencies, <<word, 1>>)

\* words.forEach(word => ...), starting from {}
RECURSIVE CountWords(_)
CountWords(words) ==
    IF words = <<>> THEN <<>>
    ELSE LET word == words[Len(words)]
             wordFrequencies == CountWords(SubSeq(words, 1, Len(words) - 1))
         IN  IF Survives(word) THEN CountWord(wordFrequencies, word)
             ELSE wordFrequencies

\* Object.entries of a plain object: the array-index keys in ascending
\* numeric order, then the other keys in creation order
IndexKeyAscending(a, b) ==
    IF NumeralLess(a[1], b[1]) THEN -1 ELSE IF NumeralLess(b[1], a[1]) THEN 1 ELSE 0

ObjectEntries(object) ==
    LET IsIndex(p) == IsArrayIndex(p[1])
        IsName(p) == ~IsArrayIndex(p[1])
    IN  ArraySort(IndexKeyAscending, FilterSeq(IsIndex, object))
            \o FilterSeq(IsName, object)

\* ([, a], [, b]) => b - a
CountDescending(a, b) == b[2] - a[2]

\* Array.prototype.slice(0, n)
SliceFirst(s, n) == IF Len(s) <= n THEN s ELSE SubSeq(s, 1, n)

TopCount == 5

\* Array.prototype.join('')
RECURSIVE JoinEmpty(_)
JoinEmpty(parts) ==
    IF parts = <<>> THEN <<>> ELSE parts[1] \o JoinEmpty(Tail(parts))

\* variant: the learnings joined without a separator
AllLearningsUnseparated(shown) ==
    LET NotBlank(l) == Trim(l) # <<>>
        LearningsOf(e) == e.learnings
    IN  JoinEmpty(FilterSeq(NotBlank, MapSeq(LearningsOf, shown)))

\* entries.map(e => e.learnings).filter(l => l.trim() !== '').join(' ')
AllLearnings(shown) ==
    LET NotBlank(l) == Trim(l) # <<>>
        LearningsOf(e) == e.learnings
    IN  JoinSpace(FilterSeq(NotBlank, MapSeq(LearningsOf, shown)))

Words(allLearnings) == SplitWhitespace(StripPunctuation(ToLowerCase(allLearnings)))

\* the <<word, count>> pairs in ranked order, before slice(0, 5)
RankedEntries(allLearnings) ==
    ArraySort(CountDescending, ObjectEntries(CountWords(Words(allLearnings))))

SortedKeywords(allLearnings) ==
    LET Word(pair) == pair[1]
    IN  MapSeq(Word, SliceFirst(RankedEntries(allLearnings), TopCount))

\* a character sequence as one string
RECURSIVE Text(_)
Text(s) == IF s = <<>> THEN "" ELSE s[1] \o Text(Tail(s))

NoDataLine ==
    "No mistakes logged yet. Add learnings to your entries to analyze patterns."
InsufficientDataLine ==
    "Not enough data to identify key patterns. Keep logging your mistakes!"
HeaderLine == "Based on your log, you should focus on:"

\* `- **${k.charAt(0).toUpperCase() + k.slice(1)}**: This appears ...`
KeywordLine(k) ==
    "- **" \o Text(<<UpperChar(k[1])>> \o Tail(k))
           \o "**: This appears frequently in your notes."

\* variant: one message for both empty outcomes
AnalyzeOneSentinel(shown) ==
    LET allLearnings == AllLearnings(shown)
        sortedKeywords == SortedKeywords(allLearnings)
    IN  IF Trim(allLearnings) = <<>> \/ Len(sortedKeywords) = 0
        THEN <<NoDataLine>>
        ELSE <<HeaderLine>> \o MapSeq(KeywordLine, sortedKeywords)

\* the value the timeout callback hands to setAnalysisResult
Analyze(shown) ==
    LET allLearnings == AllLearnings(shown)
        sortedKeywords == SortedKeywords(allLearnings)
    IN  IF Trim(allLearnings) = <<>> THEN <<NoDataLine>>
        ELSE IF Len(sortedKeywords) = 0 THEN <<InsufficientDataLine>>
        ELSE <<HeaderLine>> \o MapSeq(KeywordLine, sortedKeywords)

\* variant: the button stays enabled while an analysis is pending
handleAnalyzeMistakesAlwaysEnabled ==
    /\ isAnalyzing' = TRUE
    /\ analysisResult' = <<>>
    /\ timers' = Append(timers, chronologicalEntries)
    /\ UNCHANGED <<currentTipIndex, earlierRun>>
    /\ UnchangedCharts /\ UnchangedGoal

\* click on "Analyze My Mistakes"; the button is disabled while isAnalyzing.
\* The callback closes over the entries of the render that created it.
handleAnalyzeMistakes ==
    /\ ~isAnalyzing
    /\ isAnalyzing' = TRUE
    /\ analysisResult' = <<>>
    /\ timers' = Append(timers, chronologicalEntries)
    /\ UNCHANGED <<currentTipIndex, earlierRun>>
    /\ UnchangedCharts /\ UnchangedGoal

\* variant: the callback reads the entries on display when it runs
AnalysisTimeoutOnCurrentEntries ==
    /\ timers # <<>>
    /\ analysisResult' = Analyze(chronologicalEntries)
    /\ isAnalyzing' = FALSE
    /\ timers' = Tail(timers)
    /\ UNCHANGED currentTipIndex
    /\ UnchangedCharts /\ UnchangedGoal

\* the setTimeout callback runs, 1500 ms after the click
AnalysisTimeout ==
    /\ timers # <<>>
    /\ analysisResult' = Analyze(Head(timers))
    /\ isAnalyzing' = FALSE
    /\ timers' = Tail(timers)
    /\ UNCHANGED currentTipIndex
    /\ UnchangedCharts /\ UnchangedGoal

\* history: the run that completes in this step may be the one remembered
RecordRun == earlierRun' \in {earlierRun, <<Head(timers), analysisResult'>>}

TipCount == 5

\* the setInterval callback, every 7000 ms:
\* setCurrentTipIndex(prev => (prev + 1) % staticTips.length)
TipInterval ==
    /\ currentTipIndex' = (currentTipIndex + 1) % TipCount
    /\ UNCHANGED <<isAnalyzing, analysisResult, timers, earlierRun>>
    /\ UnchangedCharts /\ UnchangedGoal

----------------------------------------------------------------------------
(* CatMasteryTracker and EntryForm, App.tsx 392-419 and 607-636 *)

Subjects == {"LR", "DI", "QUANT", "VARC"}
TimePeriods == {"daily", "weekly", "monthly"}

\* the form contents handed to onSave
EntryData(date, subject, lr, di, vault, sectional, time, attempted, correct, text) ==
    [date |-> date, subject |-> subject, lrSets |-> lr, diSets |-> di,
     vaultSets |-> vault, sectionalSets |-> sectional, timeTaken |-> time,
     questionsAttempted |-> attempted, correctAnswers |-> correct,
     learnings |-> text]

\* { ...entryData, id }
WithId(entryData, id) ==
    [f \in DOMAIN entryData \cup {"id"} |->
        IF f = "id" THEN id ELSE entryData[f]]

\* the updater handleSaveEntry hands to setEntries; id 0 stands for null
\* and an id is the clock reading of "new Date().toISOString()"
SaveEntry(prev, entryData, id, clock) ==
    IF id # 0
    THEN [i \in 1..Len(prev) |->
            IF prev[i].id = id THEN WithId(entryData, prev[i].id) ELSE prev[i]]
    ELSE Append(prev, WithId(entryData, clock))

\* useState<Entry | null>(null): null is written as an entry with id 0
NoEntry == [id |-> 0]

\* the records of the collection that were created in this visit
CreatedHere == { i \in 1..Len(entries) : entries[i].id > 0 }

\* EntryForm.handleSubmit with no entry being edited, elapsed ticks of the
\* clock after its last reading: onSave(formState, null), then
\* setEditingEntry(null).  The clock and the number of records created are
\* bounded.
SubmitNew(entryData, elapsed) ==
    /\ editingEntry = NoEntry
    /\ now + elapsed > 0
    /\ now + elapsed <= MaxEntries
    /\ Cardinality(CreatedHere) < MaxEntries
    /\ entries' = SaveEntry(entries, entryData, 0, now + elapsed)
    /\ now' = now + elapsed
    /\ UNCHANGED <<partialEntry, tz, timePeriod, selectedSubject, editingEntry>>
    /\ UnchangedGoal /\ UnchangedInsights

\* a submit at a later reading of the clock than every submit before it
CreateEntry(entryData) == SubmitNew(entryData, 1)

\* the Edit button of a row of EntriesTable: setEditingEntry(entry)
handleEdit(i) ==
    /\ i \in 1..Len(entries)
    /\ editingEntry' = entries[i]
    /\ UNCHANGED <<partialEntry, entries, now, tz, timePeriod, selectedSubject>>
    /\ UnchangedGoal /\ UnchangedInsights

\* EntryForm.handleSubmit while an entry is edited:
\* onSave(formState, editingEntry.id), then setEditingEntry(null)
SubmitEdit(entryData) ==
    /\ editingEntry # NoEntry
    /\ entries' = SaveEntry(entries, entryData, editingEntry.id, now)
    /\ editingEntry' = NoEntry
    /\ UNCHANGED <<partialEntry, now, tz, timePeriod, selectedSubject>>
    /\ UnchangedGoal /\ UnchangedInsights

\* the Cancel button of the form, shown while an entry is edited
handleCancel ==
    /\ editingEntry # NoEntry
    /\ editingEntry' = NoEntry
    /\ UNCHANGED <<partialEntry, entries, now, tz, timePeriod, selectedSubject>>
    /\ UnchangedGoal /\ UnchangedInsights

\* prev.filter(e => e.id !== id)
DeleteEntry(prev, id) ==
    LET Kept(e) == e.id # id
    IN  FilterSeq(Kept, prev)

\* variant: a delete also discards the analysis on display
handleDeleteClearingResult(i) ==
    /\ i \in 1..Len(entries)
    /\ entries' = DeleteEntry(entries, entries[i].id)
    /\ analysisResult' = <<>>
    /\ UNCHANGED <<partialEntry, now, tz, timePeriod, selectedSubject, editingEntry>>
    /\ UNCHANGED <<isAnalyzing, timers, currentTipIndex, earlierRun>>
    /\ UnchangedGoal

\* the Delete button of a row, with the confirmation accepted
handleDelete(i) ==
    /\ i \in 1..Len(entries)
    /\ entries' = DeleteEntry(entries, entries[i].id)
    /\ UNCHANGED <<partialEntry, now, tz, timePeriod, selectedSubject, editingEntry>>
    /\ UnchangedGoal /\ UnchangedInsights

\* the daily / weekly / monthly buttons
setTimePeriod(period) ==
    /\ timePeriod' = period
    /\ UNCHANGED <<partialEntry, entries, now, tz, selectedSubject, editingEntry>>
    /\ UnchangedGoal /\ UnchangedInsights

\* the subject select of PerformanceCharts
setSelectedSubject(subject) ==
    /\ selectedSubject' = subject
    /\ UNCHANGED <<partialEntry, entries, now, tz, timePeriod, editingEntry>>
    /\ UnchangedGoal /\ UnchangedInsights

NumberFields ==
    {"lrSets", "diSets", "vaultSets", "sectionalSets", "timeTaken",
     "questionsAttempted", "correctAnswers"}

\* EntryForm.handleChange on a number field: { ...prev, [name]: Number(value) }
handleChange(name, text) ==
    /\ partialEntry' = [f \in DOMAIN partialEntry \cup {name} |->
                           IF f = name THEN Number(text) ELSE partialEntry[f]]
    /\ UNCHANGED <<entries, now, tz, timePeriod, selectedSubject, editingEntry>>
    /\ UnchangedGoal /\ UnchangedInsights

----------------------------------------------------------------------------
(* The inputs of the model *)

TimeZones == {-300, 0, 330}      \* New York (EST), UTC, Kolkata

Dec31 == <<2023, 12, 31>>
Jan01 == <<2024, 1, 1>>
Jan06 == <<2024, 1, 6>>
Jan07 == <<2024, 1, 7>>
Mar01 == <<2024, 3, 1>>
Mar02 == <<2024, 3, 2>>

ChartRecords ==
    { EntryData(Jan01, "LR", 1, 0, 0, 0, 10, 10, 10, <<>>),
      EntryData(Jan06, "LR", 0, 2, 0, 0, 30, 100, 0, <<>>),
      EntryData(Dec31, "DI", 0, 0, 1, 0, 5, 0, 0, <<>>),
      EntryData(Jan07, "DI", 0, 0, 0, 3, 45, 8, 3, <<>>),
      EntryData(Mar02, "QUANT", 1, 1, 0, 0, 15, 8, 4, <<>>),
      EntryData(Jan01, "DI", 4, 0, 0, 0, 60, 3, 1, <<>>) }

\* records of two months on either side of a year's end
BucketRecords ==
    { EntryData(Mar01, "LR", 2, 0, 0, 0, 20, 10, 8, <<>>),
      EntryData(Mar02, "LR", 1, 1, 0, 0, 15, 8, 4, <<>>),
      EntryData(Dec31, "DI", 0, 0, 1, 0, 5, 0, 0, <<>>),
      EntryData(Jan01, "DI", 4, 0, 0, 0, 60, 3, 1, <<>>) }

\* a collection found in localStorage: one short of the daily limit, one
\* record a day in December 2023, not in date order
StoredLog ==
    [i \in 1..(DailyLimit - 1) |->
        WithId(EntryData(<<2023, 12, ((7 * i) % 29) + 1>>,
                         IF i % 2 = 0 THEN "LR" ELSE "DI",
                         i % 3, 0, 0, 1, 10, 5, i % 5, <<>>),
               i - DailyLimit)]

GoalRecords ==
    { EntryData(date, "QUANT", sets, 0, 0, 0, 10, 0, 0, <<>>) :
        date \in {Mar01, Mar02}, sets \in {0, 2, 3} }

Learnings ==
    {
      \* ""
      <<>>,
      \* "  "
      <<" ", " ">>,
      \* "The is, of."
      <<"T", "h", "e", " ", "i", "s", ",", " ", "o", "f", ".">>,
      \* "Misread graph, review graph."
      <<"M", "i", "s", "r", "e", "a", "d", " ", "g", "r", "a", "p", "h",
        ",", " ", "r", "e", "v", "i", "e", "w", " ", "g", "r", "a", "p",
        "h", ".">>,
      \* "review 2024 Time"
      <<"r", "e", "v", "i", "e", "w", " ", "2", "0", "2", "4", " ", "T",
        "i", "m", "e">>,
      \* "__proto__ was"
      <<"_", "_", "p", "r", "o", "t", "o", "_", "_", " ", "w", "a", "s">>,
      \* " time 1000 2024"
      <<" ", "t", "i", "m", "e", " ", "1", "0", "0", "0", " ", "2", "0",
        "2", "4">>,
      \* "ratio ratio guess"
      <<"r", "a", "t", "i", "o", " ", "r", "a", "t", "i", "o", " ", "g",
        "u", "e", "s", "s">>,
      \* "speed speed speed"
      <<"s", "p", "e", "e", "d", " ", "s", "p", "e", "e", "d", " ", "s",
        "p", "e", "e", "d">> }

\* notes without a counted word, and notes with two
PanelRecords ==
    { EntryData(Mar01, "VARC", 0, 0, 0, 0, 0, 0, 0,
                <<"T", "h", "e", " ", "i", "s", ",", " ", "o", "f", ".">>),
      EntryData(Mar01, "VARC", 0, 0, 0, 0, 0, 0, 0,
                <<"r", "a", "t", "i", "o", " ", "r", "a", "t", "i", "o", " ",
                  "g", "u", "e", "s", "s">>) }

InsightRecords ==
    { EntryData(date, "VARC", 0, 0, 0, 0, 0, 0, 0, text) :
        date \in {Mar01, Mar02}, text \in Learnings }

\* the texts of a number input
CountTexts == {<<>>} \cup { <<n>> : n \in 0..MaxCount }
SetsTexts == {<<>>} \cup { <<n>> : n \in 1..MaxSets }
TargetTexts == {<<>>} \cup { <<n>> : n \in (-1)..MaxTarget }

----------------------------------------------------------------------------
(* Specifications *)

DefaultTarget == 6

\* the state of a first visit: nothing in localStorage
InitDefault ==
    /\ partialEntry = <<>>
    /\ entries = <<>>
    /\ now = 0
    /\ tz = 0
    /\ timePeriod = "daily"
    /\ selectedSubject = "Overall"
    /\ today = Mar01
    /\ dailyTarget = DefaultTarget
    /\ isEditing = FALSE
    /\ target = DefaultTarget
    /\ isAnalyzing = FALSE
    /\ analysisResult = <<>>
    /\ timers = <<>>
    /\ editingEntry = NoEntry
    /\ currentTipIndex = 0
    /\ earlierRun = <<>>

\* the metric helpers on the entry being typed into the form
NextMetrics ==
    \/ \E name \in {"questionsAttempted", "correctAnswers"} :
          \E text \in CountTexts : handleChange(name, text)
    \/ \E name \in NumberFields \ {"questionsAttempted", "correctAnswers"} :
          \E text \in SetsTexts : handleChange(name, text)

SpecMetrics == InitDefault /\ [][NextMetrics]_vars

\* the charts over a stored collection, in any time zone
InitChart ==
    /\ partialEntry = <<>>
    /\ entries \in {<<>>, StoredLog}
    /\ now = 0
    /\ tz \in TimeZones
    /\ timePeriod = "daily"
    /\ selectedSubject = "Overall"
    /\ today = Mar01
    /\ dailyTarget = DefaultTarget
    /\ isEditing = FALSE
    /\ target = DefaultTarget
    /\ isAnalyzing = FALSE
    /\ analysisResult = <<>>
    /\ timers = <<>>
    /\ editingEntry = NoEntry
    /\ currentTipIndex = 0
    /\ earlierRun = <<>>

NextChart ==
    \/ \E entryData \in ChartRecords : CreateEntry(entryData)
    \/ \E period \in TimePeriods : setTimePeriod(period)
    \/ \E subject \in Subjects \cup {"Overall"} : setSelectedSubject(subject)

SpecChart == InitChart /\ [][NextChart]_vars

\* the daily target over any stored target and either day
InitGoal ==
    /\ partialEntry = <<>>
    /\ entries = <<>>
    /\ now = 0
    /\ tz = 0
    /\ timePeriod = "daily"
    /\ selectedSubject = "Overall"
    /\ today \in {Mar01, Mar02}
    /\ dailyTarget \in (-1)..MaxTarget
    /\ isEditing = FALSE
    /\ target = dailyTarget
    /\ isAnalyzing = FALSE
    /\ analysisResult = <<>>
    /\ timers = <<>>
    /\ editingEntry = NoEntry
    /\ currentTipIndex = 0
    /\ earlierRun = <<>>

NextGoal ==
    \/ \E entryData \in GoalRecords : CreateEntry(entryData)
    \/ StartEditing
    \/ \E text \in TargetTexts : ChangeTarget(text)
    \/ handleSave

SpecGoal == InitGoal /\ [][NextGoal]_vars

\* the daily target from the default
SpecTarget == InitDefault /\ [][NextGoal]_vars

\* the keyword analysis
NextInsights ==
    \/ \E entryData \in InsightRecords : CreateEntry(entryData)
    \/ handleAnalyzeMistakes
    \/ AnalysisTimeout /\ UNCHANGED earlierRun

SpecInsights == InitDefault /\ [][NextInsights]_vars

\* the weekly and monthly buckets in any time zone
InitBuckets ==
    /\ partialEntry = <<>>
    /\ entries = <<>>
    /\ now = 0
    /\ tz \in TimeZones
    /\ timePeriod = "daily"
    /\ selectedSubject = "Overall"
    /\ today = Mar01
    /\ dailyTarget = DefaultTarget
    /\ isEditing = FALSE
    /\ target = DefaultTarget
    /\ isAnalyzing = FALSE
    /\ analysisResult = <<>>
    /\ timers = <<>>
    /\ editingEntry = NoEntry
    /\ currentTipIndex = 0
    /\ earlierRun = <<>>

NextBuckets ==
    \/ \E entryData \in BucketRecords : CreateEntry(entryData)
    \/ \E period \in TimePeriods : setTimePeriod(period)
    \/ \E subject \in {"LR", "DI", "Overall"} : setSelectedSubject(subject)

SpecBuckets == InitBuckets /\ [][NextBuckets]_vars

\* the record collection: create, edit, update, cancel, delete
NextRecords ==
    \/ \E entryData \in GoalRecords, elapsed \in 0..1 :
          SubmitNew(entryData, elapsed)
    \/ \E i \in 1..MaxEntries : handleEdit(i)
    \/ \E entryData \in GoalRecords : SubmitEdit(entryData)
    \/ handleCancel
    \/ \E i \in 1..MaxEntries : handleDelete(i)

SpecRecords == InitDefault /\ [][NextRecords]_vars

\* the insights panel while the collection is created, updated and deleted
NextPanel ==
    \/ \E entryData \in PanelRecords : CreateEntry(entryData)
    \/ \E i \in 1..MaxEntries : handleEdit(i)
    \/ \E entryData \in PanelRecords : SubmitEdit(entryData)
    \/ \E i \in 1..MaxEntries : handleDelete(i)
    \/ handleAnalyzeMistakes
    \/ AnalysisTimeout /\ UNCHANGED earlierRun

SpecPanel == InitDefault /\ [][NextPanel]_vars

\* repeated analyses, with the tips rotating and the collection changing
NextRuns ==
    \/ \E entryData \in PanelRecords : CreateEntry(entryData)
    \/ \E i \in 1..MaxEntries : handleEdit(i)
    \/ \E entryData \in PanelRecords : SubmitEdit(entryData)
    \/ \E i \in 1..MaxEntries : handleDelete(i)
    \/ handleAnalyzeMistakes
    \/ AnalysisTimeout /\ RecordRun
    \/ TipInterval

SpecRuns == InitDefault /\ [][NextRuns]_vars

----------------------------------------------------------------------------
(* Properties of the charts.  They are stated over the stored collection   *)
(* by counting, apart from the sorting and grouping above.                 *)

RECURSIVE SumOver(_, _)
SumOver(F(_), S) ==
    IF S = {} THEN 0
    ELSE LET x == CHOOSE y \in S : TRUE
         IN  F(x) + SumOver(F, S \ {x})

\* the table <<F(1), ..., F(n)>>
Table(F(_), n) == SubSeq([i \in 1..n |-> F(i)], 1, n)

\* the positions in entries of the records that match the subject filter
Matching ==
    { i \in 1..Len(entries) :
        selectedSubject = "Overall" \/ entries[i].subject = selectedSubject }

RecordSets(i) ==
    entries[i].lrSets + entries[i].diSets + entries[i].vaultSets
        + entries[i].sectionalSets
RecordAttempted(i) == entries[i].questionsAttempted
RecordCorrect(i) == entries[i].correctAnswers

\* the order of two YYYY-MM-DD strings
DateBefore(a, b) ==
    \/ a[1] < b[1]
    \/ a[1] = b[1] /\ a[2] < b[2]
    \/ a[1] = b[1] /\ a[2] = b[2] /\ a[3] < b[3]

\* for each record, its position among the matching records in ascending
\* date order, records of one date in the order of the collection
Ranks ==
    LET RankAt(i) ==
            Cardinality({ j \in Matching :
                \/ DateBefore(entries[j].date, entries[i].date)
                \/ entries[j].date = entries[i].date /\ j < i }) + 1
    IN  Table(RankAt, Len(entries))

\* the records at the most recent DailyLimit positions
Recent(rank) == { i \in Matching : rank[i] > Cardinality(Matching) - DailyLimit }

\* x is num / den rounded to two decimals, for den > 0
IsRounded(x, num, den) ==
    /\ x[2] = 100
    /\ (2 * x[1] - 1) * den <= 200 * num
    /\ 200 * num < (2 * x[1] + 1) * den

\* the accuracy of the records S taken together
IsSummedAccuracy(x, S) ==
    LET attempted == SumOver(RecordAttempted, S)
        correct == SumOver(RecordCorrect, S)
    IN  IF attempted = 0 THEN RatEq(x, Rat(0, 1))
        ELSE IsRounded(x, 100 * correct, attempted)

ChartTotal(cd) ==
    LET PointSets(b) == cd[b].TotalSets
    IN  SumOver(PointSets, 1..Len(cd))

\* C1 as stated: for every non-empty collection, subject filter and
\* granularity, the 'Total Sets' of all points add up to the total sets of
\* all records that match the filter.
C1_AllPointsSumToAllRecords ==
    entries # <<>> => ChartTotal(chartData) = SumOver(RecordSets, Matching)

\* C1, amended: in weekly and monthly mode the 'Total Sets' of all buckets
\* add up to the total sets of all matching records; in daily mode the
\* points add up to the total sets of the most recent min(n, 30) matching
\* records, which is the total of all of them when no more than 30 match.
C1_PointsSumToShownRecords ==
    LET total == ChartTotal(chartData)
        all == SumOver(RecordSets, Matching)
    IN  /\ timePeriod # "daily" => total = all
        /\ timePeriod = "daily" => total = SumOver(RecordSets, Recent(Ranks))
        /\ Cardinality(Matching) <= DailyLimit => total = all

\* more than 30 records match in daily mode and the ones left out have sets
C1_Witness ==
    /\ timePeriod = "daily"
    /\ Cardinality(Matching) > DailyLimit
    /\ SumOver(RecordSets, Matching) > SumOver(RecordSets, Recent(Ranks))

\* the group key of each record
RecordKeys ==
    LET KeyAt(i) == GroupKey(timePeriod, entries[i])
    IN  Table(KeyAt, Len(entries))

\* for each record, the position of its bucket: the keys of the matching
\* records in the order of their first records
BucketPositions(rank, key) ==
    LET first == { j \in Matching :
                     ~\E l \in Matching : key[l] = key[j] /\ rank[l] < rank[j] }
        PositionAt(i) ==
            IF i \notin Matching THEN 0
            ELSE LET own == CHOOSE f \in first : key[f] = key[i]
                 IN  Cardinality({ f \in first : rank[f] <= rank[own] })
    IN  Table(PositionAt, Len(entries))

\* C2: in weekly and monthly mode a bucket's accuracy is the summed
\* correctAnswers over the summed questionsAttempted of its records, times
\* 100, to two decimals, and 0 when nothing was attempted; the records
\* {10 attempted, 10 correct} and {100 attempted, 0 correct} of one bucket
\* give 9.09, not the mean 50.
C2_BucketAccuracyFromSums ==
    timePeriod # "daily" =>
        LET cd == chartData
            key == RecordKeys
            position == BucketPositions(Ranks, key)
        IN  /\ Len(cd) = Cardinality({ key[i] : i \in Matching })
            /\ \A i \in Matching :
                  LET members == { j \in Matching : key[j] = key[i] }
                  IN  /\ IsSummedAccuracy(cd[position[i]].Accuracy, members)
                      /\ ( /\ Cardinality(members) = 2
                           /\ \E j \in members :
                                 RecordAttempted(j) = 10 /\ RecordCorrect(j) = 10
                           /\ \E j \in members :
                                 RecordAttempted(j) = 100 /\ RecordCorrect(j) = 0 )
                         => cd[position[i]].Accuracy = Rat(909, 100)

\* one bucket holds exactly the two records of the example
C2_Witness ==
    /\ timePeriod = "monthly"
    /\ Len(entries) = 2
    /\ Matching = {1, 2}
    /\ RecordKeys[1] = RecordKeys[2]
    /\ RecordAttempted(1) = 10 /\ RecordCorrect(1) = 10
    /\ RecordAttempted(2) = 100 /\ RecordCorrect(2) = 0

\* C9: in daily mode there is one point per matching record, same-day
\* records unmerged, in ascending date order with equal dates in the order
\* of the collection, and the points are the last min(n, 30) of that order.
C9_DailyPoints ==
    timePeriod = "daily" =>
        LET cd == chartData
            rank == Ranks
            n == Cardinality(Matching)
            shown == IF n < DailyLimit THEN n ELSE DailyLimit
        IN  /\ Len(cd) = shown
            /\ \A i \in Matching :
                  rank[i] > n - shown =>
                      /\ cd[rank[i] - (n - shown)].TotalSets = RecordSets(i)
                      /\ IsSummedAccuracy(cd[rank[i] - (n - shown)].Accuracy, {i})

\* more than 30 records, not in date order, two of them of one day
C9_Witness ==
    /\ timePeriod = "daily"
    /\ Cardinality(Matching) > DailyLimit
    /\ \E i, j \in Matching :
          i < j /\ DateBefore(entries[j].date, entries[i].date)
    /\ \E j, l \in Matching :
          /\ j < l
          /\ entries[j].date = entries[l].date
          /\ RecordSets(j) # RecordSets(l)

\* the calendar of a civil date, from the month lengths
RECURSIVE DaysInMonthsBefore(_, _)
DaysInMonthsBefore(y, m) ==
    IF m = 1 THEN 0 ELSE DaysInMonthsBefore(y, m - 1) + MonthLen(y, m - 1)

\* 0-based offset in days from January 1 of the year
DayOfYear(date) == DaysInMonthsBefore(date[1], date[2]) + (date[3] - 1)

\* weekday index of a civil date, Sunday = 0
MonthKeys == <<0, 3, 2, 5, 0, 3, 5, 1, 4, 6, 2, 4>>
Weekday(date) ==
    LET y == IF date[2] < 3 THEN date[1] - 1 ELSE date[1]
    IN  (y + (y \div 4) - (y \div 100) + (y \div 400)
            + MonthKeys[date[2]] + date[3]) % 7

FirstWeekdayOfYear(y) == Weekday(<<y, 1, 1>>)

PreviousDate(date) ==
    IF date[3] > 1 THEN <<date[1], date[2], date[3] - 1>>
    ELSE IF date[2] = 1 THEN <<date[1] - 1, 12, 31>>
    ELSE <<date[1], date[2] - 1, MonthLen(date[1], date[2] - 1)>>

\* for each record, the name of the bucket it is counted in
BucketNames ==
    LET cd == chartData
        position == BucketPositions(Ranks, RecordKeys)
        NameAt(i) == IF i \in Matching THEN cd[position[i]].name ELSE ""
    IN  Table(NameAt, Len(entries))

\* C10 as stated: the week label of a record's bucket is
\* ceil((dayOfYear + firstWeekdayOfYear) / 7) and the key is (year, label).
C10_LabelWithoutOffset ==
    timePeriod = "weekly" =>
        LET name == BucketNames
        IN  \A i \in Matching :
                LET date == entries[i].date
                IN  name[i] =
                        ToString(date[1]) \o "-W" \o
                        ToString(MathCeil(DayOfYear(date)
                                            + FirstWeekdayOfYear(date[1]), 7))

\* the key the code computes for a date: one more inside the ceiling, and
\* the time of day the local zone adds to the offset from January 1
CodeWeekKey(date) ==
    LET local == IF tz < 0 THEN PreviousDate(date) ELSE date
        whole == DayOfYear(local) + FirstWeekdayOfYear(local[1]) + 1
    IN  <<local[1],
          IF tz = 0 THEN MathCeil(whole, 7) ELSE (whole \div 7) + 1>>

\* C10, amended: the week label is ceil((pastDays + firstWeekdayOfYear + 1) / 7),
\* where pastDays is the time in days from local midnight of January 1 of
\* the record's local year to UTC midnight of the record's date.  In UTC
\* pastDays is the 0-based dayOfYear; east of UTC it is dayOfYear plus a
\* fraction of a day; west of UTC the year and dayOfYear are those of the
\* day before, plus a fraction.  The key is (local year, label).
C10_LabelWithOffset ==
    timePeriod = "weekly" =>
        LET name == BucketNames
        IN  \A i \in Matching :
                LET key == CodeWeekKey(entries[i].date)
                IN  name[i] = ToString(key[1]) \o "-W" \o ToString(key[2])

\* weekly mode in UTC with a record of Sunday 2024-01-07:
\* dayOfYear 6 + firstWeekdayOfYear 1 is a multiple of 7
C10_Witness ==
    /\ timePeriod = "weekly"
    /\ tz = 0
    /\ \E i \in Matching :
          entries[i].date = Jan07 /\ BucketNames[i] = "2024-W2"

\* the year and month written in a record's date
YearMonth(i) == <<entries[i].date[1], entries[i].date[2]>>

IsMarchExample(i, day, attempted, correct) ==
    /\ entries[i].date = <<2024, 3, day>>
    /\ RecordSets(i) = 2
    /\ RecordAttempted(i) = attempted
    /\ RecordCorrect(i) = correct

\* C13: in monthly mode two records are in one bucket exactly when their
\* dates have the same year and the same month, so there is one bucket per
\* year and month; the records of 2024-03-01 (2 sets, 10 attempted, 8
\* correct) and 2024-03-02 (2 sets, 8 attempted, 4 correct) give the single
\* bucket with Total Sets 4 and Accuracy 66.67.
C13_MonthlyByYearAndMonth ==
    timePeriod = "monthly" =>
        LET cd == chartData
            key == RecordKeys
        IN  /\ \A i, j \in Matching :
                  key[i] = key[j] <=> YearMonth(i) = YearMonth(j)
            /\ Len(cd) = Cardinality({ YearMonth(i) : i \in Matching })
            /\ ( /\ Cardinality(Matching) = 2
                 /\ \E i \in Matching : IsMarchExample(i, 1, 10, 8)
                 /\ \E i \in Matching : IsMarchExample(i, 2, 8, 4) )
                  => /\ Len(cd) = 1
                     /\ cd[1].TotalSets = 4
                     /\ cd[1].Accuracy = Rat(6667, 100)

\* the name of the bucket a record is grouped under
RecordNames ==
    LET NameAt(i) ==
            LET key == GroupKey(timePeriod, entries[i])
            IN  IF timePeriod = "monthly"
                THEN MonthYearName(DateLocal(key[1], key[2] - 1, 1))
                ELSE ToString(key[1]) \o "-" \o key[2]
    IN  Table(NameAt, Len(entries))

\* C14: in weekly and monthly mode the buckets come in ascending date
\* order, whatever the order of the collection: every bucket has records,
\* every matching record is in a bucket, and of two consecutive buckets no
\* record of the later one is dated before a record of the earlier one.
C14_BucketsAscending ==
    timePeriod # "daily" =>
        LET cd == chartData
            name == RecordNames
        IN  /\ \A b \in 1..Len(cd) : \E i \in Matching : name[i] = cd[b].name
            /\ \A i \in Matching : \E b \in 1..Len(cd) : name[i] = cd[b].name
            /\ \A b \in 1..(Len(cd) - 1) :
                  \A i, j \in Matching :
                      (name[i] = cd[b].name /\ name[j] = cd[b + 1].name)
                          => ~DateBefore(entries[j].date, entries[i].date)

\* two buckets from a collection that is not in date order
C14_Witness ==
    /\ timePeriod = "weekly"
    /\ Len(chartData) = 2
    /\ \E i, j \in Matching :
          i < j /\ DateBefore(entries[j].date, entries[i].date)

----------------------------------------------------------------------------
(* Properties of the metric helpers *)

Attempted == OrZero(partialEntry, "questionsAttempted")
Correct == OrZero(partialEntry, "correctAnswers")

\* C3 as stated: calculateAccuracy is never negative and is 0 exactly when
\* questionsAttempted is 0.
C3_ZeroOnlyWithoutAttempts ==
    LET accuracy == calculateAccuracy(partialEntry)
    IN  /\ RatLe(Rat(0, 1), accuracy)
        /\ RatEq(accuracy, Rat(0, 1)) <=> Attempted = 0

\* C3, amended: calculateAccuracy is never negative; it is 0 exactly when
\* questionsAttempted is 0 or correctAnswers is 0, and non-zero whenever
\* both are non-zero.
C3_ZeroWithoutAttemptsOrCorrect ==
    LET accuracy == calculateAccuracy(partialEntry)
    IN  /\ accuracy[2] > 0
        /\ RatLe(Rat(0, 1), accuracy)
        /\ RatEq(accuracy, Rat(0, 1)) <=> (Attempted = 0 \/ Correct = 0)

\* questions were attempted and none was correct
C3_Witness ==
    /\ "questionsAttempted" \in DOMAIN partialEntry
    /\ Attempted > 0
    /\ Correct = 0
    /\ RatEq(calculateAccuracy(partialEntry), Rat(0, 1))

SetFields == {"lrSets", "diSets", "vaultSets", "sectionalSets"}

\* C15: the three metrics are defined for every record, partial ones
\* included, an absent field counting as 0: calculateTotalSets is the sum
\* of the four set counts, calculateSpeed is timeTaken / totalSets and 0
\* when totalSets is 0, calculateAccuracy is 0 when questionsAttempted is 0
\* or absent, and no quotient has a zero divisor.
C15_MetricsTotal ==
    LET FieldValue(f) == partialEntry[f]
        total == SumOver(FieldValue, SetFields \cap DOMAIN partialEntry)
        time == IF "timeTaken" \in DOMAIN partialEntry
                THEN partialEntry["timeTaken"] ELSE 0
        speed == calculateSpeed(partialEntry)
        accuracy == calculateAccuracy(partialEntry)
    IN  /\ calculateTotalSets(partialEntry) = total
        /\ speed[2] > 0
        /\ accuracy[2] > 0
        /\ total = 0 => RatEq(speed, Rat(0, 1))
        /\ total # 0 => speed[1] * total = time * speed[2]
        /\ ( \/ "questionsAttempted" \notin DOMAIN partialEntry
             \/ partialEntry["questionsAttempted"] = 0 )
              => RatEq(accuracy, Rat(0, 1))

\* a partial record: time and correct answers are given, no set count and
\* no questionsAttempted
C15_Witness ==
    /\ DOMAIN partialEntry = {"timeTaken", "correctAnswers"}
    /\ partialEntry["timeTaken"] > 0
    /\ partialEntry["correctAnswers"] > 0
    /\ RatEq(calculateSpeed(partialEntry), Rat(0, 1))
    /\ RatEq(calculateAccuracy(partialEntry), Rat(0, 1))

----------------------------------------------------------------------------
(* Properties of the daily target *)

TodaysRecords == { i \in 1..Len(entries) : entries[i].date = today }

\* C6: setsToday is the total sets of exactly the records dated today;
\* progress is min(setsToday / target * 100, 100) for a target above 0 and
\* 0 for any other target, whatever setsToday is; it lies within [0, 100].
C6_ProgressOfToday ==
    LET p == progress
    IN  /\ setsToday = SumOver(RecordSets, TodaysRecords)
        /\ p[2] > 0
        /\ dailyTarget > 0 /\ setsToday >= dailyTarget => RatEq(p, Rat(100, 1))
        /\ dailyTarget > 0 /\ setsToday < dailyTarget
              => p[1] * dailyTarget = setsToday * 100 * p[2]
        /\ dailyTarget <= 0 => RatEq(p, Rat(0, 1))
        /\ RatLe(Rat(0, 1), p) /\ RatLe(p, Rat(100, 1))

\* a target of 0 or less while sets were done today and on another day
C6_Witness ==
    /\ dailyTarget <= 0
    /\ setsToday > 0
    /\ \E i \in 1..Len(entries) : entries[i].date # today /\ RecordSets(i) > 0
    /\ RatEq(progress, Rat(0, 1))

\* C7: the bar is bg-success when setsToday >= target, bg-yellow-400 when
\* the target is not met and progress is above 50, bg-primary otherwise;
\* 6 of 6 is progress 100 and bg-success, 0 of 6 is progress 0 and bg-primary.
C7_GoalCategory ==
    LET met == setsToday >= dailyTarget
        aboveHalf == dailyTarget > 0 /\ 2 * setsToday > dailyTarget
    IN  /\ barColor = "bg-success" <=> met
        /\ barColor = "bg-yellow-400" <=> (~met /\ aboveHalf)
        /\ barColor = "bg-primary" <=> (~met /\ ~aboveHalf)
        /\ setsToday = 6 /\ dailyTarget = 6
              => RatEq(progress, Rat(100, 1)) /\ barColor = "bg-success"
        /\ setsToday = 0 /\ dailyTarget = 6
              => RatEq(progress, Rat(0, 1)) /\ barColor = "bg-primary"

\* 6 sets done today against a target of 6
C7_Witness == setsToday = 6 /\ dailyTarget = 6 /\ barColor = "bg-success"

\* C8: a save of a target that is not a positive number changes nothing,
\* the stored target only ever changes to the positive value typed, and
\* from the default 6 the stored target is always above 0.
C8_TargetStaysPositive ==
    /\ [](dailyTarget > 0)
    /\ [][ /\ ~(target > 0) => dailyTarget' = dailyTarget
           /\ dailyTarget' # dailyTarget => target > 0 /\ dailyTarget' = target ]_vars

\* a target was saved, and now 0 or less is typed in and about to be saved
C8_Witness ==
    /\ isEditing
    /\ target <= 0
    /\ dailyTarget # DefaultTarget

----------------------------------------------------------------------------
(* Properties of the keyword analysis *)

\* the ranked <<word, count>> pairs and the words of the entries on display
ShownWords == Words(AllLearnings(chronologicalEntries))
ShownRanking == RankedEntries(AllLearnings(chronologicalEntries))

\* the position of the first occurrence of a word in the concatenated text
FirstOccurrence(words, word) ==
    CHOOSE p \in 1..Len(words) :
        words[p] = word /\ \A q \in 1..(p - 1) : words[q] # word

\* C4: of two counted words with the same count, the one that occurs first
\* in the concatenated learnings is ranked first, whatever their characters.
C4_TiesInFirstSeenOrder ==
    LET words == ShownWords
        ranking == ShownRanking
    IN  \A i, j \in 1..Len(ranking) :
            i < j /\ ranking[i][2] = ranking[j][2]
                => FirstOccurrence(words, ranking[i][1])
                      < FirstOccurrence(words, ranking[j][1])

\* every character of a text is whitespace
IsBlank(text) == \A p \in 1..Len(text) : text[p] \in Whitespace

\* what C5 says of the result of analysing a snapshot
SentinelFor(snapshot, result) ==
    LET allBlank == \A i \in 1..Len(snapshot) : IsBlank(snapshot[i].learnings)
        words == Words(AllLearnings(snapshot))
        noneCounted == \A p \in 1..Len(words) :
                          words[p] \in stopWords \/ Len(words[p]) <= 3
    IN  /\ result = <<NoDataLine>> <=> allBlank
        /\ ~allBlank /\ noneCounted => result = <<InsufficientDataLine>>
        /\ NoDataLine # InsufficientDataLine
        /\ allBlank \/ noneCounted => Len(result) = 1

\* C5: the analysis reports "no data" exactly when every learnings is empty
\* or whitespace, and "insufficient data" when some learnings is not but
\* every word is a stop-word or no longer than 3; neither is a ranked list.
C5_Sentinels ==
    [][ timers # <<>> /\ timers' = Tail(timers)
            => SentinelFor(Head(timers), analysisResult') ]_vars

\* an analysis of notes without a counted word has completed
C5_Witness ==
    /\ ~isAnalyzing
    /\ analysisResult = <<InsufficientDataLine>>
    /\ \E i \in 1..Len(entries) : ~IsBlank(entries[i].learnings)

\* how often a word occurs in a sequence of words
Occurrences(words, word) ==
    Cardinality({ p \in 1..Len(words) : words[p] = word })

\* the words that survive the filter
SurvivingTerms(words) ==
    { words[p] : p \in { q \in 1..Len(words) : Survives(words[q]) } }

\* C16: when a word survives the filter, the analysis returns
\* min(5, number of distinct surviving words) distinct surviving words in
\* non-increasing order of their counts, and no surviving word left out
\* occurs more often than a returned one.
C16_TopFiveByCount ==
    LET words == ShownWords
        surviving == SurvivingTerms(words)
        keywords == SortedKeywords(AllLearnings(chronologicalEntries))
        returned == { keywords[i] : i \in 1..Len(keywords) }
    IN  surviving # {} =>
            /\ Len(keywords) = IF Cardinality(surviving) < TopCount
                               THEN Cardinality(surviving) ELSE TopCount
            /\ Cardinality(returned) = Len(keywords)
            /\ returned \subseteq surviving
            /\ \A i, j \in 1..Len(keywords) :
                  i < j => Occurrences(words, keywords[i])
                              >= Occurrences(words, keywords[j])
            /\ \A w \in surviving \ returned : \A k \in returned :
                  Occurrences(words, w) <= Occurrences(words, k)

\* the surviving words of one record
TermsOfRecord(e) == SurvivingTerms(Words(e.learnings))

\* the words of the learnings of a collection, record by record
RECURSIVE WordsOfRecords(_)
WordsOfRecords(shown) ==
    IF shown = <<>> THEN <<>>
    ELSE Words(shown[1].learnings) \o WordsOfRecords(Tail(shown))

\* no two surviving words of the collection occur equally often
NoTies(shown) ==
    LET words == WordsOfRecords(shown)
        terms == SurvivingTerms(words)
    IN  Cardinality({ Occurrences(words, w) : w \in terms }) = Cardinality(terms)

\* the collection with the records at positions i and j exchanged
SwapRecords(shown, i, j) ==
    LET At(k) == IF k = i THEN shown[j] ELSE IF k = j THEN shown[i] ELSE shown[k]
    IN  Table(At, Len(shown))

----------------------------------------------------------------------------
(* Properties of the insights panel *)

\* a step in which a pending analysis completes
Completes == timers # <<>> /\ timers' = Tail(timers)

\* a step in which an analysis is requested
Requests == Len(timers') > Len(timers)

\* C11: the result of an analysis depends only on the collection captured
\* when it was requested: a run that completes with the captured
\* collection of an earlier run sets the result of that earlier run,
\* whatever was analysed, rotated or edited in between.
C11_SameCollectionSameResult ==
    [][ ( Completes /\ earlierRun # <<>> /\ earlierRun[1] = Head(timers) )
            => analysisResult' = earlierRun[2] ]_vars

\* an analysis of the collection of an earlier run is pending, the
\* collection was edited after the request and the tip has rotated
C11_Witness ==
    /\ isAnalyzing
    /\ earlierRun # <<>>
    /\ timers = <<earlierRun[1]>>
    /\ Len(earlierRun[2]) > 1
    /\ chronologicalEntries # earlierRun[1]
    /\ currentTipIndex # 0

\* C17 as stated: whenever a result is on display and no analysis is
\* pending, it is the keyword analysis of the current collection.
C17_ResultOfCurrentCollection ==
    (analysisResult # <<>> /\ ~isAnalyzing)
        => analysisResult = Analyze(chronologicalEntries)

\* C17, amended: the result is computed on request only.  A request
\* captures the collection on display and clears the result, the
\* completion sets the keyword analysis of the captured collection, and a
\* create, update or delete leaves the result and the captured collection
\* as they are.
C17_ResultOfRequestedCollection ==
    [][ /\ Requests => /\ timers' = Append(timers, chronologicalEntries)
                       /\ analysisResult' = <<>>
        /\ Completes => analysisResult' = Analyze(Head(timers))
        /\ entries' # entries => /\ analysisResult' = analysisResult
                                 /\ timers' = timers
      ]_vars

\* a result on display that is not the analysis of the current collection
C17_Witness ==
    /\ ~isAnalyzing
    /\ Len(analysisResult) > 1
    /\ analysisResult # Analyze(chronologicalEntries)

\* C19: isAnalyzing holds exactly when one analysis timer is pending and
\* never more than one is; while one is pending no analysis is requested;
\* each completion sets a non-empty result and ends isAnalyzing.
C19_OnePendingAnalysis ==
    /\ [](Len(timers) <= 1 /\ (isAnalyzing <=> Len(timers) = 1))
    /\ [][ /\ isAnalyzing => ~Requests
           /\ Completes => analysisResult' # <<>> /\ ~isAnalyzing'
         ]_vars

\* an analysis is pending after an earlier one completed, while the
\* collection has changed since the request
C19_Witness ==
    /\ isAnalyzing
    /\ Len(timers) = 1
    /\ analysisResult = <<>>
    /\ Head(timers) # chronologicalEntries

----------------------------------------------------------------------------
(* Properties of the record collection *)

IdsDistinct(s) == \A i, j \in 1..Len(s) : i # j => s[i].id # s[j].id

\* C18: after every create, update and delete all records have pairwise
\* distinct ids; an update (edit and save) changes at most the one record
\* with the edited id, keeps the id of every record and leaves every other
\* record as it was.
C18_IdsDistinctAndKept ==
    [][ /\ IdsDistinct(entries')
        /\ ( editingEntry # NoEntry /\ editingEntry' = NoEntry
               /\ entries' # entries )
              => /\ Len(entries') = Len(entries)
                 /\ \A i \in 1..Len(entries) :
                       /\ entries'[i].id = entries[i].id
                       /\ entries[i].id # editingEntry.id
                             => entries'[i] = entries[i]
                 /\ Cardinality({ i \in 1..Len(entries) :
                                    entries'[i] # entries[i] }) <= 1
      ]_vars

=============================================================================
